---- MODULE Spec2Model ----
(***************************************************************************)
(* Model of the PostgreSQL migration agent CLI: the TodoTracker            *)
(* (src/cli/main.py), the render loop of run_agent_with_ui                 *)
(* (src/cli/main.py) and PostgresAgent with its PostToolUse hook           *)
(* (src/agents/postgres_agent.py).                                         *)
(*                                                                         *)
(* Scheduling is asyncio's: one coroutine runs at a time.  The agent task  *)
(* and the SDK's hook dispatch run only while run_agent_with_ui is         *)
(* suspended in asyncio.sleep (main_pc = "sleep").                         *)
(*                                                                         *)
(* Strings whose characters matter (message texts, previews) are           *)
(* sequences of one-character strings.  Python's None is the empty         *)
(* sequence <<>>, a present value v is <<v>>.  Dict keys are the 0-based   *)
(* indices enumerate() produces.                                           *)
(***************************************************************************)
EXTENDS Integers, Sequences, FiniteSets, TLC

\* ------------------------------------------------------------------ bounds
MaxTime == 2
MaxTodos == 1
MaxHooks == 2
MaxMessages == 2
MaxFrames == 2

\* ------------------------------------------------------- program constants
PreviewLen == 60

\* ------------------------------------------------------------ small helpers
None == <<>>
Some(v) == <<v>>

SetMin(S) == CHOOSE x \in S : \A y \in S : x <= y
SetMax(S) == CHOOSE x \in S : \A y \in S : x >= y

Repeat(c, n) == [i \in 1..n |-> c]

\* str.split('\n')[0]
FirstLine(s) ==
    LET nl == {i \in 1..Len(s) : s[i] = "\n"}
    IN  IF nl = {} THEN s ELSE SubSeq(s, 1, SetMin(nl) - 1)

\* s[:n]
Truncate(s, n) == IF Len(s) <= n THEN s ELSE SubSeq(s, 1, n)

Whitespace == {" ", "\n", "\t"}

\* str.strip()
Strip(s) ==
    LET ink == {i \in 1..Len(s) : s[i] \notin Whitespace}
    IN  IF ink = {} THEN <<>> ELSE SubSeq(s, SetMin(ink), SetMax(ink))

\* dict.get(key, default) on a record standing for a dict
Get(d, key, default) == IF key \in DOMAIN d THEN d[key] ELSE default

\* ------------------------------------------------------------------- state
VARIABLES
    now,                      \* time.time()
    \* TodoTracker
    todos,
    task_start_times,
    task_end_times,
    agent_start_time,
    current_message_type,
    current_message_preview,
    \* PostgresAgent.run, running as agent_task
    agent_pc,
    client_connected,
    received,                 \* ids of the messages receive_messages() has yielded
    notified,                 \* arguments of every message_callback call, in order
    result_message,
    agent_exc,
    \* _post_tool_use_hook
    n_hooks,                  \* calls of the hook so far
    last_hook,                \* input, output and callback arguments of the last call
    \* run_agent_with_ui
    main_pc,
    frame_idx,
    live_frame,               \* the frame last handed to live.update
    live_glyphs,              \* spinner_state of every frame handed to live.update
    printed,
    \* update_todos and update_message taken statement by statement (TornSpec)
    in_update,                \* the call that has begun and not returned, if any
    whole_state               \* the tracker as the calls begun so far leave it

trackerVars == <<todos, task_start_times, task_end_times, agent_start_time,
                 current_message_type, current_message_preview>>
agentVars == <<agent_pc, client_connected, received, notified, result_message,
               agent_exc>>
hookVars == <<n_hooks, last_hook>>
mainVars == <<main_pc, frame_idx, live_frame, live_glyphs, printed>>
callVars == <<in_update, whole_state>>
vars == <<now, trackerVars, agentVars, hookVars, mainVars, callVars>>

\* ------------------------------------------------------------- TodoTracker
\* Todo entries the agent may report: a dict with "content" and "status",
\* either of which may be missing.
TodoItems ==
    { [content |-> "x", status |-> "pending"],
      [status |-> "in_progress"],
      [content |-> "x", status |-> "completed"],
      [content |-> "y"] }

TodoSnapshots == UNION {[1..n -> TodoItems] : n \in 0..MaxTodos}

\* As StatusOf, with an entry without status taken as in progress.
StatusOfDefaultInProgress(todo) == Get(todo, "status", "in_progress")

\* todo.get("status", "pending")
StatusOf(todo) == Get(todo, "status", "pending")

\* As StartTimesAfter, without the "not in self.task_start_times" test.
StartTimesAfterOverwrite(starts, tds, t) ==
    LET hit == {i \in 0..(Len(tds) - 1) : StatusOf(tds[i + 1]) = "in_progress"}
    IN  [i \in DOMAIN starts \cup hit |-> IF i \in hit THEN t ELSE starts[i]]

\* update_todos, lines 42-44, over the whole enumerate() loop: iteration i
\* reads and writes key i only.
StartTimesAfter(starts, tds, t) ==
    LET hit == {i \in 0..(Len(tds) - 1) :
                    StatusOf(tds[i + 1]) = "in_progress" /\ i \notin DOMAIN starts}
    IN  [i \in DOMAIN starts \cup hit |-> IF i \in hit THEN t ELSE starts[i]]

\* As EndTimesAfter, without the "not in self.task_end_times" test.
EndTimesAfterDropVanished(ends, tds, t) ==
    LET new == {i \in 0..(Len(tds) - 1) :
                    StatusOf(tds[i + 1]) = "completed" /\ i \notin DOMAIN ends}
        kept == DOMAIN ends \cap 0..(Len(tds) - 1)
    IN  [i \in kept \cup new |-> IF i \in new THEN t ELSE ends[i]]

\* As EndTimesAfter, with the end time written on every completed entry.
EndTimesAfterOverwrite(ends, tds, t) ==
    LET hit == {i \in 0..(Len(tds) - 1) : StatusOf(tds[i + 1]) = "completed"}
    IN  [i \in DOMAIN ends \cup hit |-> IF i \in hit THEN t ELSE ends[i]]

\* update_todos, lines 46-48.
EndTimesAfter(ends, tds, t) ==
    LET hit == {i \in 0..(Len(tds) - 1) :
                    StatusOf(tds[i + 1]) = "completed" /\ i \notin DOMAIN ends}
    IN  [i \in DOMAIN ends \cup hit |-> IF i \in hit THEN t ELSE ends[i]]

\* TodoTracker.update_todos(tds); current_time is read once, at entry.
\* lines 30-50 as one function of the tracker's fields
WholeAfterTodos(w, tds, t) ==
    [w EXCEPT !.todos = tds,
              !.task_start_times = StartTimesAfter(@, tds, t),
              !.task_end_times = EndTimesAfter(@, tds, t)]

update_todos(tds) ==
    /\ task_start_times' = StartTimesAfter(task_start_times, tds, now)
    /\ task_end_times' = EndTimesAfter(task_end_times, tds, now)
    /\ todos' = tds
    /\ UNCHANGED <<agent_start_time, current_message_type, current_message_preview>>

\* msg_preview.strip() if msg_preview else ""
CleanPreview(msg_preview) == IF msg_preview # <<>> THEN Strip(msg_preview) ELSE <<>>

\* TodoTracker.update_message(msg_type, msg_preview)
\* lines 52-61 as one function of the tracker's fields
WholeAfterMessage(w, msg_type, msg_preview) ==
    [w EXCEPT !.current_message_type = msg_type,
              !.current_message_preview = CleanPreview(msg_preview)]

update_message(msg_type, msg_preview) ==
    /\ current_message_type' = msg_type
    /\ current_message_preview' = CleanPreview(msg_preview)
    /\ UNCHANGED <<todos, task_start_times, task_end_times, agent_start_time>>

\* Python truthiness of an optional float: None and 0.0 are falsy.
Truthy(opt) == opt # None /\ opt[1] # 0

\* As TaskTime, with current_time as the only default of line 76.
TaskTimeNoFallback(starts, ends, run_start, index, t) ==
    IF index \in DOMAIN ends
    THEN ends[index] - (IF index \in DOMAIN starts THEN starts[index] ELSE t)
    ELSE IF index \in DOMAIN starts THEN t - starts[index] ELSE 0

\* get_task_time on explicit arguments; t is the time.time() read at line 72.
TaskTime(starts, ends, run_start, index, t) ==
    IF index \in DOMAIN ends
    THEN LET start == IF index \in DOMAIN starts
                      THEN starts[index]
                      ELSE IF Truthy(run_start) THEN run_start[1] ELSE t
         IN  ends[index] - start
    ELSE IF index \in DOMAIN starts
         THEN t - starts[index]
         ELSE 0

\* TodoTracker.get_task_time(index), called at time now
get_task_time(index) ==
    TaskTime(task_start_times, task_end_times, agent_start_time, index, now)

\* ------------------------------------------------- frames (create_table)
HeaderLen == 70

Chars_Waiting ==
    <<"W", "a", "i", "t", "i", "n", "g", " ", "f", "o", "r", " ",
      "r", "e", "s", "p", "o", "n", "s", "e", ".", ".", ".">>

\* spinner_frames, line 168, and the glyph of the final update, line 183
\* (the braille and check-mark glyphs, named in ASCII)
spinner_frames == <<"sp0", "sp1", "sp2", "sp3", "sp4", "sp5", "sp6", "sp7", "sp8", "sp9">>
DoneGlyph == "check"

\* create_table, lines 99-103
HeaderMsg ==
    IF current_message_preview # <<>>
    THEN Truncate(FirstLine(current_message_preview), HeaderLen)
    ELSE Chars_Waiting

\* As TaskRow, with the duration appended on every row.
TaskRowAlwaysTimed(i, spinner_state) ==
    LET todo == todos[i + 1]
        status == StatusOf(todo)
    IN  [kind |-> "task",
         icon |-> IF status = "completed" THEN "check"
                  ELSE IF status = "in_progress" THEN spinner_state ELSE "blank",
         content |-> Get(todo, "content", ""),
         time_text |-> Some(get_task_time(i))]

\* create_table, lines 118-141: the row of todo i (0-based)
TaskRow(i, spinner_state) ==
    LET todo == todos[i + 1]
        status == StatusOf(todo)
        content == Get(todo, "content", "")
        task_time == get_task_time(i)
    IN  IF status = "completed"
        THEN [kind |-> "task", icon |-> "check", content |-> content,
              time_text |-> Some(task_time)]
        ELSE IF status = "in_progress"
        THEN [kind |-> "task", icon |-> spinner_state, content |-> content,
              time_text |-> Some(task_time)]
        ELSE [kind |-> "task", icon |-> "blank", content |-> content,
              time_text |-> None]

\* TodoTracker.create_table(agent_elapsed, spinner_state)
create_table(agent_elapsed, spinner_state) ==
    [ elapsed |-> agent_elapsed,
      msg |-> HeaderMsg,
      glyph |-> spinner_state,
      rows |-> IF todos = <<>>
               THEN <<[kind |-> "starting", icon |-> spinner_state,
                       content |-> "Starting agent...", time_text |-> None]>>
               ELSE [k \in 1..Len(todos) |-> TaskRow(k - 1, spinner_state)] ]

\* ---------------------------------------------------- the agent's messages
TextBlock(chars) == [kind |-> "TextBlock", text |-> chars]
ToolUseBlock == [kind |-> "ToolUseBlock", text |-> <<>>]

\* The messages client.receive_messages() may yield; a message's id is its
\* place in this catalogue.
MessageCatalogue ==
    << [type |-> "UserMessage", content |-> <<TextBlock(<<"h", "i">>)>>,
        is_error |-> FALSE, result |-> None],
       [type |-> "AssistantMessage",
        content |-> <<ToolUseBlock,
                      TextBlock(<<" ", "a", "b", " ", "\n", "c", "d">>),
                      TextBlock(<<"z">>)>>,
        is_error |-> FALSE, result |-> None],
       [type |-> "AssistantMessage",
        content |-> <<TextBlock(Repeat("a", PreviewLen + 1) \o <<"b">>)>>,
        is_error |-> FALSE, result |-> None],
       [type |-> "ResultMessage", content |-> <<>>,
        is_error |-> FALSE, result |-> Some("done")],
       [type |-> "ResultMessage", content |-> <<>>,
        is_error |-> TRUE, result |-> Some("boom")],
       [type |-> "ResultMessage", content |-> <<>>,
        is_error |-> FALSE, result |-> None],
       [type |-> "ResultMessage", content |-> <<>>,
        is_error |-> TRUE, result |-> None] >>

Message(id) == MessageCatalogue[id]

MessageIds == DOMAIN MessageCatalogue

\* isinstance(message, ResultMessage)
IsResult(id) == Message(id).type = "ResultMessage"

\* run, lines 112-121: msg_preview of a message
MessagePreview(m) ==
    IF m.type = "AssistantMessage"
    THEN LET tb == {i \in 1..Len(m.content) : m.content[i].kind = "TextBlock"}
         IN  IF tb = {}
             THEN <<>>
             ELSE Truncate(FirstLine(m.content[SetMin(tb)].text), PreviewLen)
    ELSE <<>>

\* ------------------------------------------------------------ scheduling
\* asyncio runs one coroutine at a time: the agent task and the SDK's hook
\* dispatch run only while run_agent_with_ui is suspended in asyncio.sleep
\* (line 179).  Awaiting the finished task at line 187 does not suspend.
MainSuspended == main_pc = "sleep"

\* As TaskDone, true only for a task that ended without an exception.
TaskDoneOnlySuccess == agent_pc = "done" /\ agent_exc = "none"

\* As TaskDone, true as soon as run has left its receive loop.
TaskDoneEarly == agent_pc \in {"disconnect", "done"}

\* agent_task.done()
TaskDone == agent_pc = "done"

\* create_agent(..., todo_callback=tracker.update_todos,
\*              message_callback=tracker.update_message)
todo_callback == TRUE
message_callback == TRUE

\* ------------------------------------------------------- PostgresAgent.run
\* await client.connect(): succeeds, or raises out of run
Connect ==
    /\ MainSuspended
    /\ agent_pc = "created"
    /\ \E ok \in BOOLEAN :
          IF ok
          THEN /\ agent_pc' = "connected"
               /\ client_connected' = TRUE
               /\ UNCHANGED agent_exc
          ELSE /\ agent_pc' = "done"
               /\ agent_exc' = "SDKError"
               /\ UNCHANGED client_connected
    /\ UNCHANGED <<now, trackerVars, received, notified, result_message,
                   hookVars, mainVars>>
    /\ UNCHANGED callVars

\* await client.query(user_idea): succeeds, or raises out of run
Query ==
    /\ MainSuspended
    /\ agent_pc = "connected"
    /\ \E ok \in BOOLEAN :
          IF ok
          THEN /\ agent_pc' = "receiving"
               /\ UNCHANGED agent_exc
          ELSE /\ agent_pc' = "done"
               /\ agent_exc' = "SDKError"
    /\ UNCHANGED <<now, trackerVars, client_connected, received, notified,
                   result_message, hookVars, mainVars>>
    /\ UNCHANGED callVars

\* As ShouldNotify, with the ResultMessage test of line 128 taken first.
ShouldNotifySkipResult(message) == message_callback /\ message.type # "ResultMessage"

\* line 124: whether the message is handed to self.message_callback
ShouldNotify(message) == message_callback

\* One iteration of the async for, lines 110-130, for the message with this id.
ReceiveMessage(id) ==
    /\ MainSuspended
    /\ agent_pc = "receiving"
    /\ Len(received) < MaxMessages
    /\ received' = Append(received, id)
    /\ LET message == Message(id)
           msg_type == message.type
           msg_preview == MessagePreview(message)
       IN  IF ShouldNotify(message)
           THEN /\ update_message(msg_type, msg_preview)
                /\ notified' = Append(notified, [msg_type |-> msg_type,
                                                 msg_preview |-> msg_preview])
           ELSE UNCHANGED <<trackerVars, notified>>
    /\ IF IsResult(id)
       THEN /\ result_message' = Some(id)
            /\ agent_pc' = "disconnect"
       ELSE UNCHANGED <<result_message, agent_pc>>
    /\ UNCHANGED <<now, client_connected, agent_exc, hookVars, mainVars, callVars>>

\* receive_messages() is exhausted: the async for ends without a break
StreamEnd ==
    /\ MainSuspended
    /\ agent_pc = "receiving"
    /\ agent_pc' = "disconnect"
    /\ UNCHANGED <<now, trackerVars, client_connected, received, notified,
                   result_message, agent_exc, hookVars, mainVars>>
    /\ UNCHANGED callVars

\* receive_messages() raises: the exception leaves run at line 110
StreamError ==
    /\ MainSuspended
    /\ agent_pc = "receiving"
    /\ agent_pc' = "done"
    /\ agent_exc' = "SDKError"
    /\ UNCHANGED <<now, trackerVars, client_connected, received, notified,
                   result_message, hookVars, mainVars>>
    /\ UNCHANGED callVars

\* As RunOutcome, without the test of line 135.
RunOutcomeIgnoresNone(result) == "none"

\* run, lines 133-138: disconnect, then raise or return
RunOutcome(result) == IF result = None THEN "RuntimeError" ELSE "none"

Disconnect ==
    /\ MainSuspended
    /\ agent_pc = "disconnect"
    /\ client_connected' = FALSE
    /\ agent_exc' = RunOutcome(result_message)
    /\ agent_pc' = "done"
    /\ UNCHANGED <<now, trackerVars, received, notified, result_message,
                   hookVars, mainVars>>
    /\ UNCHANGED callVars

\* ---------------------------------------------------- _post_tool_use_hook
\* The hook inputs the SDK delivers in this model: TodoWrite calls with and
\* without a "todos" key, another tool, and another hook event.
HookSnapshots ==
    { <<[status |-> "in_progress"]>>,
      <<[content |-> "x", status |-> "completed"], [content |-> "y"]>> }

HookInputs ==
    {[hook_event_name |-> "PostToolUse", tool_name |-> "TodoWrite",
      tool_input |-> [todos |-> tds]] : tds \in HookSnapshots}
    \cup
    {[hook_event_name |-> "PostToolUse", tool_name |-> "TodoWrite",
      tool_input |-> [merge |-> TRUE]],
     [hook_event_name |-> "PostToolUse", tool_name |-> "Bash",
      tool_input |-> [todos |-> <<[status |-> "in_progress"]>>]],
     [hook_event_name |-> "PreToolUse", tool_name |-> "TodoWrite",
      tool_input |-> [todos |-> <<[status |-> "in_progress"]>>]]}

\* As HookReportsTodos, without the tool name test of line 64.
HookReportsAnyTool(hook_input) ==
    /\ hook_input.hook_event_name = "PostToolUse"
    /\ todo_callback

\* lines 54 and 64: whether the hook reaches self.todo_callback(todos)
HookReportsTodos(hook_input) ==
    /\ hook_input.hook_event_name = "PostToolUse"
    /\ hook_input.tool_name = "TodoWrite"
    /\ todo_callback

\* lines 55 and 69: the HookJSONOutput returned
HookOutput(hook_input) == [continue_ |-> TRUE]

\* One call of _post_tool_use_hook by the SDK, possible while the client is
\* connected.
PostToolUseHook(hook_input) ==
    /\ MainSuspended
    /\ client_connected
    /\ n_hooks < MaxHooks
    /\ n_hooks' = n_hooks + 1
    /\ IF HookReportsTodos(hook_input)
       THEN LET tds == Get(hook_input.tool_input, "todos", <<>>)
            IN  /\ update_todos(tds)
                /\ last_hook' = Some([input |-> hook_input,
                                      output |-> HookOutput(hook_input),
                                      callback_args |-> Some(tds)])
       ELSE /\ UNCHANGED trackerVars
            /\ last_hook' = Some([input |-> hook_input,
                                  output |-> HookOutput(hook_input),
                                  callback_args |-> None])
    /\ UNCHANGED <<now, agentVars, mainVars, callVars>>

\* -------------------------------------------------------- run_agent_with_ui
\* lines 154-172: tracker, run start time, agent, background task, Live
Start ==
    /\ main_pc = "init"
    /\ agent_start_time' = Some(now)
    /\ agent_pc' = "created"
    /\ main_pc' = "loop"
    /\ UNCHANGED <<now, todos, task_start_times, task_end_times,
                   current_message_type, current_message_preview,
                   client_connected, received, notified, result_message,
                   agent_exc, hookVars, frame_idx, live_frame, live_glyphs, printed>>
    /\ UNCHANGED callVars

\* The loop condition of line 173 is evaluated on entering the loop and each
\* time asyncio.sleep(0.25) returns; nothing else runs between the sleep
\* returning and the next await.
AtLoopTest == main_pc \in {"loop", "sleep"}

\* As NoUpdateRunning, for a caller that runs on another thread.
UpdateMayBePreempted == TRUE

\* update_todos and update_message contain no await: once one of them has
\* begun, the event loop cannot resume run_agent_with_ui before it returns.
NoUpdateRunning == in_update = None

\* As RenderTick, with the preview consumed by the frame that shows it.
RenderTickConsumesPreview ==
    /\ AtLoopTest
    /\ NoUpdateRunning
    /\ ~TaskDone
    /\ frame_idx < MaxFrames
    /\ LET elapsed == now - agent_start_time[1]
           spinner_state == spinner_frames[(frame_idx % Len(spinner_frames)) + 1]
       IN  /\ live_frame' = Some(create_table(elapsed, spinner_state))
           /\ live_glyphs' = Append(live_glyphs, spinner_state)
    /\ frame_idx' = frame_idx + 1
    /\ main_pc' = "sleep"
    /\ current_message_preview' = <<>>
    /\ UNCHANGED <<now, todos, task_start_times, task_end_times, agent_start_time,
                   current_message_type, agentVars, hookVars, printed>>
    /\ UNCHANGED callVars

\* lines 173-179: one iteration of the while loop, up to the sleep
RenderTick ==
    /\ AtLoopTest
    /\ NoUpdateRunning
    /\ ~TaskDone
    /\ frame_idx < MaxFrames
    /\ LET elapsed == now - agent_start_time[1]
           spinner_state == spinner_frames[(frame_idx % Len(spinner_frames)) + 1]
       IN  /\ live_frame' = Some(create_table(elapsed, spinner_state))
           /\ live_glyphs' = Append(live_glyphs, spinner_state)
    /\ frame_idx' = frame_idx + 1
    /\ main_pc' = "sleep"
    /\ UNCHANGED <<now, trackerVars, agentVars, hookVars, printed>>
    /\ UNCHANGED callVars

\* lines 181-184: the loop condition is false; final update
FinalRender ==
    /\ AtLoopTest
    /\ NoUpdateRunning
    /\ TaskDone
    /\ LET elapsed == now - agent_start_time[1]
       IN  /\ live_frame' = Some(create_table(elapsed, DoneGlyph))
           /\ live_glyphs' = Append(live_glyphs, DoneGlyph)
    /\ main_pc' = "await"
    /\ UNCHANGED <<now, trackerVars, agentVars, hookVars, frame_idx, printed>>
    /\ UNCHANGED callVars

\* As AwaitOutcome, with the task's exception swallowed.
AwaitOutcomeSwallowed(exc) == IF exc # "none" THEN "finished" ELSE "report"

\* line 187: result = await agent_task
AwaitOutcome(exc) == IF exc # "none" THEN "raised" ELSE "report"

AwaitTask ==
    /\ main_pc = "await"
    /\ main_pc' = AwaitOutcome(agent_exc)
    /\ UNCHANGED <<now, trackerVars, agentVars, hookVars, frame_idx, live_frame,
                   live_glyphs, printed>>
    /\ UNCHANGED callVars

\* As ResultOutput, with the result text rendered as markdown whenever
\* there is one.
ResultOutputMarkdownFirst(result) ==
    IF result.result # None
    THEN <<[kind |-> "markdown", text |-> result.result[1]]>>
    ELSE IF result.is_error
         THEN <<[kind |-> "error_panel", text |-> "Agent execution failed"]>>
         ELSE <<[kind |-> "text", text |-> "Success!"]>>

\* lines 190-213: what console.print is given for a result
ResultOutput(result) ==
    IF result.is_error
    THEN <<[kind |-> "error_panel",
            text |-> IF result.result # None THEN result.result[1]
                     ELSE "Agent execution failed"]>>
    ELSE IF result.result # None
         THEN <<[kind |-> "markdown", text |-> result.result[1]]>>
         ELSE <<[kind |-> "text", text |-> "Success!"]>>

Report ==
    /\ main_pc = "report"
    /\ printed' = ResultOutput(Message(result_message[1]))
                      \o <<[kind |-> "stats", text |-> "Duration | Turns"]>>
    /\ main_pc' = "finished"
    /\ UNCHANGED <<now, trackerVars, agentVars, hookVars, frame_idx, live_frame,
                   live_glyphs>>
    /\ UNCHANGED callVars

\* ------------------------------------------------------------------ clock
\* time.time() is non-decreasing and may advance between any two steps.
Tick ==
    /\ now < MaxTime
    /\ now' = now + 1
    /\ UNCHANGED <<trackerVars, agentVars, hookVars, mainVars>>
    /\ UNCHANGED callVars

\* ---------------------------------------------------------- specification
\* TodoTracker.__init__, before run_agent_with_ui has started anything.
\* time.time() is seconds since the epoch: positive.
Init ==
    /\ now = 1
    /\ todos = <<>>
    /\ task_start_times = <<>>
    /\ task_end_times = <<>>
    /\ agent_start_time = None
    /\ current_message_type = ""
    /\ current_message_preview = <<>>
    /\ agent_pc = "none"
    /\ client_connected = FALSE
    /\ received = <<>>
    /\ notified = <<>>
    /\ result_message = None
    /\ agent_exc = "none"
    /\ n_hooks = 0
    /\ last_hook = None
    /\ main_pc = "init"
    /\ frame_idx = 0
    /\ live_frame = None
    /\ live_glyphs = <<>>
    /\ printed = <<>>
    /\ in_update = None
    /\ whole_state = [todos |-> <<>>,
                      task_start_times |-> <<>>,
                      task_end_times |-> <<>>,
                      current_message_type |-> "",
                      current_message_preview |-> <<>>]

Next ==
    \/ Start
    \/ RenderTick
    \/ FinalRender
    \/ AwaitTask
    \/ Report
    \/ Connect
    \/ Query
    \/ \E id \in MessageIds : ReceiveMessage(id)
    \/ StreamEnd
    \/ StreamError
    \/ Disconnect
    \/ \E hook_input \in HookInputs : PostToolUseHook(hook_input)
    \/ Tick

Spec == Init /\ [][Next]_vars

\* The steps of the program itself, at one reading of the clock: no guard
\* of the render loop, of run or of the hook reads the time.
RunNext ==
    \/ Start
    \/ RenderTick
    \/ FinalRender
    \/ AwaitTask
    \/ Report
    \/ Connect
    \/ Query
    \/ \E id \in MessageIds : ReceiveMessage(id)
    \/ StreamEnd
    \/ StreamError
    \/ Disconnect
    \/ \E hook_input \in HookInputs : PostToolUseHook(hook_input)

\* The event loop resumes run_agent_with_ui when its sleep of line 179 is
\* over, and the statements after the loop (lines 181-213) run to the end
\* once they are reached.  Nothing is assumed of the agent task.
FairSpec ==
    /\ Init
    /\ [][RunNext]_vars
    /\ WF_vars(FinalRender)
    /\ WF_vars(AwaitTask)
    /\ WF_vars(Report)

\* ------------------------------------------- the tracker under any caller
\* The TodoTracker of a started run, notified in any order with any snapshot
\* of at most MaxTodos entries and any message.
NotifyTodos(tds) ==
    /\ main_pc # "init"
    /\ update_todos(tds)
    /\ UNCHANGED <<now, agentVars, hookVars, mainVars, callVars>>

NotifyMessage(id) ==
    /\ main_pc # "init"
    /\ update_message(Message(id).type, MessagePreview(Message(id)))
    /\ UNCHANGED <<now, agentVars, hookVars, mainVars, callVars>>

TrackerNext ==
    \/ Start
    \/ \E tds \in TodoSnapshots : NotifyTodos(tds)
    \/ \E id \in {1, 2} : NotifyMessage(id)
    \/ Tick

TrackerSpec == Init /\ [][TrackerNext]_vars

\* ------------------------------------------- the tracker, statement by statement
\* update_todos up to line 48: current_time is read and the loop over the
\* new list records the start and end times; self.todos is still the old list.
BeginUpdateTodos(tds) ==
    /\ MainSuspended
    /\ in_update = None
    /\ task_start_times' = StartTimesAfter(task_start_times, tds, now)
    /\ task_end_times' = EndTimesAfter(task_end_times, tds, now)
    /\ in_update' = Some([op |-> "update_todos", todos |-> tds])
    /\ whole_state' = WholeAfterTodos(whole_state, tds, now)
    /\ UNCHANGED <<now, todos, agent_start_time, current_message_type,
                   current_message_preview, agentVars, hookVars, mainVars>>

\* line 50: self.todos = todos
EndUpdateTodos ==
    /\ in_update # None
    /\ in_update[1].op = "update_todos"
    /\ todos' = in_update[1].todos
    /\ in_update' = None
    /\ UNCHANGED <<now, task_start_times, task_end_times, agent_start_time,
                   current_message_type, current_message_preview, agentVars,
                   hookVars, mainVars, whole_state>>

\* update_message up to line 59: self.current_message_type = msg_type
BeginUpdateMessage(id) ==
    /\ MainSuspended
    /\ in_update = None
    /\ current_message_type' = Message(id).type
    /\ in_update' = Some([op |-> "update_message",
                          msg_preview |-> MessagePreview(Message(id))])
    /\ whole_state' = WholeAfterMessage(whole_state, Message(id).type,
                                        MessagePreview(Message(id)))
    /\ UNCHANGED <<now, todos, task_start_times, task_end_times, agent_start_time,
                   current_message_preview, agentVars, hookVars, mainVars>>

\* line 61: self.current_message_preview = msg_preview.strip() or ""
EndUpdateMessage ==
    /\ in_update # None
    /\ in_update[1].op = "update_message"
    /\ current_message_preview' = CleanPreview(in_update[1].msg_preview)
    /\ in_update' = None
    /\ UNCHANGED <<now, todos, task_start_times, task_end_times, agent_start_time,
                   current_message_type, agentVars, hookVars, mainVars, whole_state>>

\* The render loop beside a caller that notifies the tracker while the loop
\* sleeps, each call taken statement by statement.
TornNext ==
    \/ Start
    \/ RenderTick
    \/ \E tds \in HookSnapshots \cup {<<>>} : BeginUpdateTodos(tds)
    \/ EndUpdateTodos
    \/ \E id \in {1, 2} : BeginUpdateMessage(id)
    \/ EndUpdateMessage
    \/ Tick

TornSpec == Init /\ [][TornNext]_vars

\* ================================================================ claims
Indices == 0..MaxTodos

\* C1: first-write-wins timing.  Once task_start_times[i] has a value, no
\* later step changes or removes it, and likewise for task_end_times[i],
\* whatever the later snapshots report for index i.
C1_FirstWriteWins ==
    [][ /\ \A i \in DOMAIN task_start_times :
              /\ i \in DOMAIN task_start_times'
              /\ task_start_times'[i] = task_start_times[i]
        /\ \A i \in DOMAIN task_end_times :
              /\ i \in DOMAIN task_end_times'
              /\ task_end_times'[i] = task_end_times[i] ]_vars

\* Index 0 was started and completed earlier and the latest snapshot reports
\* it pending again.
C1_Witness ==
    /\ 0 \in DOMAIN task_start_times
    /\ 0 \in DOMAIN task_end_times
    /\ task_start_times[0] < now
    /\ task_end_times[0] < now
    /\ Len(todos) = 1
    /\ StatusOf(todos[1]) = "pending"

\* C2: idempotence after completion.  Once index i has an end time, no later
\* step changes its end time or its start time; a start time that was absent
\* at completion stays absent.
C2_FrozenAfterCompletion ==
    [][ \A i \in DOMAIN task_end_times :
          /\ i \in DOMAIN task_end_times'
          /\ task_end_times'[i] = task_end_times[i]
          /\ (i \in DOMAIN task_start_times') <=> (i \in DOMAIN task_start_times)
          /\ i \in DOMAIN task_start_times =>
                task_start_times'[i] = task_start_times[i] ]_vars

\* C3: get_task_time returns end - start when both times are recorded,
\* end - run start when only the end time is, now - start when only the start
\* time is, and 0 when neither is.
C3_TaskTimeCases ==
    \A i \in Indices :
        LET started == i \in DOMAIN task_start_times
            ended == i \in DOMAIN task_end_times
        IN  /\ (started /\ ended) =>
                get_task_time(i) = task_end_times[i] - task_start_times[i]
            /\ (~started /\ ended) =>
                get_task_time(i) = task_end_times[i] - agent_start_time[1]
            /\ (started /\ ~ended) =>
                get_task_time(i) = now - task_start_times[i]
            /\ (~started /\ ~ended) => get_task_time(i) = 0

\* Index 0 completed without ever being in progress, and the clock has moved
\* on since the run started.
C3_Witness ==
    /\ 0 \in DOMAIN task_end_times
    /\ 0 \notin DOMAIN task_start_times
    /\ agent_start_time # None
    /\ agent_start_time[1] < now

\* C4: durations are never negative: get_task_time(i) >= 0 for every index
\* after any sequence of snapshots.
C4_NonNegativeDurations ==
    \A i \in Indices : get_task_time(i) >= 0

\* C5: while index i has a start time and no end time, successive values of
\* get_task_time(i) never decrease, whatever step is taken in between.
C5_MonotoneWhileRunning ==
    [][ \A i \in Indices :
          ( /\ i \in DOMAIN task_start_times
            /\ i \notin DOMAIN task_end_times
            /\ i \in DOMAIN task_start_times'
            /\ i \notin DOMAIN task_end_times' )
          => get_task_time(i)' >= get_task_time(i) ]_vars

\* Index 0 is running, time has passed since it started, and a message and
\* a snapshot that no longer reports it in progress have arrived since.
C5_Witness ==
    /\ 0 \in DOMAIN task_start_times
    /\ 0 \notin DOMAIN task_end_times
    /\ get_task_time(0) > 0
    /\ current_message_type # ""
    /\ todos = <<>>

Last(seq) == seq[Len(seq)]
LeftLoop == main_pc \in {"await", "raised", "report", "finished"}

\* C6: render loop exit protocol.  Animation frames are pushed only while
\* the agent task is not done; the loop is left only once the task is done;
\* after leaving it exactly one more frame is pushed, with the done glyph,
\* before anything is printed, so the last frame on the live display is the
\* done-glyph frame.
C6_RenderLoopExit ==
    /\ [](LeftLoop =>
            /\ agent_pc = "done"
            /\ live_glyphs # <<>>
            /\ Last(live_glyphs) = DoneGlyph
            /\ Cardinality({k \in 1..Len(live_glyphs) : live_glyphs[k] = DoneGlyph}) = 1
            /\ live_frame # None
            /\ live_frame[1].glyph = DoneGlyph)
    /\ [](~LeftLoop =>
            /\ \A k \in 1..Len(live_glyphs) : live_glyphs[k] # DoneGlyph
            /\ printed = <<>>)
    /\ [][ live_glyphs' # live_glyphs =>
             /\ live_glyphs' = Append(live_glyphs, Last(live_glyphs'))
             /\ live_frame' # None
             /\ live_frame'[1].glyph = Last(live_glyphs')
             /\ Last(live_glyphs') # DoneGlyph => agent_pc # "done"
             /\ Last(live_glyphs') = DoneGlyph => agent_pc = "done" /\ printed = <<>>
       ]_vars

\* The run is over and reported, after animation frames and the final frame.
C6_Witness ==
    /\ main_pc = "finished"
    /\ Len(live_glyphs) = 3
    /\ Last(live_glyphs) = DoneGlyph
    /\ printed # <<>>

\* C7: failure propagation.  If the agent task failed, the loop exits, the
\* final render is done, and awaiting the task raises out of
\* run_agent_with_ui with no result panel and no stats line printed; the
\* failure is never turned into a report.
C7_FailurePropagation ==
    /\ (agent_pc = "done" /\ agent_exc # "none") =>
            /\ main_pc \notin {"report", "finished"}
            /\ printed = <<>>
    /\ main_pc = "raised" =>
            /\ agent_pc = "done"
            /\ agent_exc # "none"
            /\ live_glyphs # <<>>
            /\ Last(live_glyphs) = DoneGlyph
            /\ printed = <<>>
    /\ (main_pc \in {"report", "finished"}) => agent_exc = "none"

\* The task failed after messages had arrived, and the failure has come out
\* of run_agent_with_ui.
C7_Witness ==
    /\ main_pc = "raised"
    /\ agent_exc = "RuntimeError"
    /\ received # <<>>
    /\ Last(live_glyphs) = DoneGlyph

ResultPositions == {k \in 1..Len(received) : Message(received[k]).type = "ResultMessage"}

\* C8: no result produced.  When the stream ends without a ResultMessage,
\* run raises RuntimeError instead of returning; run returns only if a
\* ResultMessage was received, and what it returns is the first
\* ResultMessage of the stream.
C8_NoResultRaises ==
    /\ []((agent_pc = "done" /\ agent_exc = "none") =>
            /\ ResultPositions # {}
            /\ result_message = Some(received[SetMin(ResultPositions)]))
    /\ []((agent_pc = "done" /\ ResultPositions = {}) => agent_exc # "none")
    /\ []((agent_pc = "disconnect" /\ ResultPositions = {}) => result_message = None)
    /\ [][ (agent_pc = "disconnect" /\ ResultPositions = {} /\ agent_pc' # agent_pc) =>
             (agent_pc' = "done" /\ agent_exc' = "RuntimeError") ]_vars

\* The stream yielded messages, none of them a ResultMessage, and ended; run
\* has raised.
C8_Witness ==
    /\ agent_pc = "done"
    /\ agent_exc = "RuntimeError"
    /\ received # <<>>
    /\ ResultPositions = {}

\* C9: Event Bridge filtering and decision.  Every hook call returns the
\* continue decision; the todo callback is invoked, with the call's todo
\* list, exactly when the event is PostToolUse and the tool is TodoWrite;
\* any other call leaves the tracker unchanged.
C9_HookFiltering ==
    [][ n_hooks' # n_hooks =>
          LET call == last_hook'[1]
              isTodoWrite == /\ call.input.hook_event_name = "PostToolUse"
                             /\ call.input.tool_name = "TodoWrite"
          IN  /\ call.output = [continue_ |-> TRUE]
              /\ (call.callback_args # None) <=> isTodoWrite
              /\ isTodoWrite =>
                    /\ call.callback_args =
                          Some(IF "todos" \in DOMAIN call.input.tool_input
                               THEN call.input.tool_input.todos
                               ELSE <<>>)
                    /\ todos' = call.callback_args[1]
              /\ ~isTodoWrite => UNCHANGED trackerVars ]_vars

\* A TodoWrite call has set the tracker's snapshot and a later call for
\* another tool, carrying a todo list too, has left it alone.
C9_Witness ==
    /\ n_hooks = 2
    /\ last_hook[1].input.tool_name = "Bash"
    /\ last_hook[1].callback_args = None
    /\ Len(todos) = 2

\* The preview the callback must be given for each message of the
\* catalogue: the first line of the first text block of an AssistantMessage,
\* cut to PreviewLen characters; empty for any other message.
ExpectedCallbackPreviews ==
    << <<>>, <<" ", "a", "b", " ">>, Repeat("a", PreviewLen), <<>>, <<>>, <<>>, <<>> >>

\* The preview each message must leave in the tracker: the same, without
\* surrounding whitespace.
ExpectedPreviews ==
    << <<>>, <<"a", "b">>, Repeat("a", PreviewLen), <<>>, <<>>, <<>>, <<>> >>

ExpectedPreview(id) == ExpectedPreviews[id]

\* C10: message notifications.  Every message the stream yields, up to and
\* including the first ResultMessage, is notified exactly once and in stream
\* order; nothing is read after the first ResultMessage; and the tracker's
\* MessageState is the type and trimmed preview of the latest message only.
C10_MessageNotifications ==
    /\ Len(notified) = Len(received)
    /\ \A k \in 1..Len(received) :
          /\ notified[k].msg_type = Message(received[k]).type
          /\ notified[k].msg_preview = ExpectedCallbackPreviews[received[k]]
          /\ k < Len(received) => Message(received[k]).type # "ResultMessage"
    /\ result_message # None =>
          /\ received # <<>>
          /\ result_message = Some(Last(received))
          /\ Last(notified).msg_type = "ResultMessage"
    /\ IF received = <<>>
       THEN current_message_type = "" /\ current_message_preview = <<>>
       ELSE /\ current_message_type = Message(Last(received)).type
            /\ current_message_preview = ExpectedPreview(Last(received))

\* An AssistantMessage with a preview was followed by the ResultMessage: the
\* tracker holds the ResultMessage's type and empty preview.
C10_Witness ==
    /\ Len(received) = 2
    /\ received[1] = 2
    /\ result_message # None
    /\ current_message_type = "ResultMessage"
    /\ current_message_preview = <<>>
    /\ notified[1].msg_preview = <<" ", "a", "b", " ">>

\* A step that hands a frame to live.update
Renders == live_glyphs' # live_glyphs

\* C11: header placeholder.  Every rendered frame shows the current message
\* preview in its header, and shows the placeholder text exactly when no
\* message notification has arrived before the frame is built.
C11_HeaderPlaceholder ==
    [][ Renders =>
          /\ (live_frame'[1].msg = Chars_Waiting) <=> (notified = <<>>)
          /\ notified # <<>> => live_frame'[1].msg = current_message_preview ]_vars

\* C12: frame body.  With an empty snapshot the frame has exactly one body
\* line, the starting indicator with the frame's glyph; otherwise it has one
\* line per todo of the snapshot, in snapshot order, with a duration on
\* completed and in_progress todos and none on pending ones.
C12_FrameBody ==
    [][ Renders =>
          LET rows == live_frame'[1].rows
          IN  IF todos = <<>>
              THEN /\ Len(rows) = 1
                   /\ rows[1].kind = "starting"
                   /\ rows[1].icon = Last(live_glyphs')
              ELSE /\ Len(rows) = Len(todos)
                   /\ \A k \in 1..Len(todos) :
                         LET timed == /\ "status" \in DOMAIN todos[k]
                                      /\ todos[k].status \in {"completed", "in_progress"}
                         IN  /\ rows[k].kind = "task"
                             /\ "content" \in DOMAIN todos[k] =>
                                    rows[k].content = todos[k].content
                             /\ (rows[k].time_text # None) <=> timed ]_vars

\* The frame on display has two task lines, the first with a duration and
\* the second without.
C12_Witness ==
    /\ live_frame # None
    /\ Len(live_frame[1].rows) = 2
    /\ live_frame[1].rows[1].time_text # None
    /\ live_frame[1].rows[2].time_text = None
    /\ Len(live_glyphs) = 2
    /\ live_glyphs[1] = "sp0"

\* C13: outcome display.  A result with is_error true is printed as an error
\* panel holding the result text, or the default failure message when there
\* is no text, and never as markdown; markdown or the plain success line is
\* printed only when is_error is false; the stats line follows in both cases
\* and run_agent_with_ui returns.
C13_OutcomeDisplay ==
    /\ printed # <<>> => main_pc = "finished"
    /\ main_pc = "finished" =>
          LET result == MessageCatalogue[result_message[1]]
          IN  /\ Len(printed) = 2
              /\ printed[2].kind = "stats"
              /\ result.is_error =>
                    /\ printed[1].kind = "error_panel"
                    /\ printed[1].text = IF result.result = None
                                         THEN "Agent execution failed"
                                         ELSE result.result[1]
              /\ ~result.is_error =>
                    IF result.result = None
                    THEN printed[1].kind = "text" /\ printed[1].text = "Success!"
                    ELSE /\ printed[1].kind = "markdown"
                         /\ printed[1].text = result.result[1]

\* The run ended with is_error and the text "boom", shown in an error panel.
C13_Witness ==
    /\ main_pc = "finished"
    /\ MessageCatalogue[result_message[1]].is_error
    /\ printed[1] = [kind |-> "error_panel", text |-> "boom"]
    /\ printed[2].kind = "stats"

\* C14: read-only consumer.  Building a frame leaves the tracker's snapshot,
\* start times, end times, run start time and MessageState unchanged; once
\* the run has started they change only in a step that delivers a todo or a
\* message notification.
C14_ReadOnlyConsumer ==
    [][ /\ Renders => UNCHANGED trackerVars
        /\ (main_pc # "init" /\ trackerVars' # trackerVars) =>
              \/ n_hooks' # n_hooks /\ last_hook'[1].callback_args # None
              \/ Len(notified') = Len(notified) + 1 ]_vars

\* A frame was built from a tracker that holds a snapshot and a preview, and
\* the tracker still holds both.
C14_Witness ==
    /\ live_frame # None
    /\ live_frame[1].rows[1].kind = "task"
    /\ live_frame[1].msg = <<"a", "b">>
    /\ todos # <<>>
    /\ current_message_preview = <<"a", "b">>

\* The body lines of the frame create_table builds from the current tracker
FrameRows == create_table(0, "sp0").rows

C17_MalformedEntries ==
    /\ [](\A k \in 1..Len(todos) :
             /\ "status" \notin DOMAIN todos[k] =>
                   /\ FrameRows[k].icon = "blank"
                   /\ FrameRows[k].time_text = None
             /\ "content" \notin DOMAIN todos[k] => FrameRows[k].content = "")
    /\ [][ \A k \in 1..Len(todos') :
             "status" \notin DOMAIN todos'[k] =>
                 /\ (k - 1 \in DOMAIN task_start_times') <=>
                        (k - 1 \in DOMAIN task_start_times)
                 /\ (k - 1 \in DOMAIN task_end_times') <=>
                        (k - 1 \in DOMAIN task_end_times) ]_vars

\* The snapshot holds an entry without status and no time was ever recorded.
C17_Witness ==
    /\ todos # <<>>
    /\ "status" \notin DOMAIN todos[1]
    /\ task_start_times = <<>>
    /\ task_end_times = <<>>

\* C19: client release.  Whenever run has terminated after connect succeeded,
\* by returning, by raising RuntimeError or by an exception of query or of
\* the message stream, client.disconnect has been called.
C19_ClientReleased == agent_pc = "done" => ~client_connected

\* C20: final frame.  No todo or message notification reaches the tracker
\* once the agent task is done, so the frame with the done glyph is built
\* from the tracker as every notification of the run left it.
C20_FinalFrameUpToDate ==
    /\ [][agent_pc = "done" => UNCHANGED trackerVars]_vars
    /\ [][main_pc \notin {"init", "loop", "sleep"} => UNCHANGED trackerVars]_vars
    /\ [][(Renders /\ Last(live_glyphs') = DoneGlyph) =>
              /\ agent_pc = "done"
              /\ live_frame'[1] = create_table(now - agent_start_time[1], DoneGlyph)
         ]_vars

\* C18: termination.  The render loop is left only when the agent task is
\* done, so it is never left if the task never completes; once the task is
\* done the loop is left and the driver goes on to print the result and the
\* stats line or to raise the task's exception.
C18_Termination ==
    /\ [](LeftLoop => agent_pc = "done")
    /\ (agent_pc = "done") ~>
          \/ main_pc = "raised" /\ agent_exc # "none"
          \/ main_pc = "finished" /\ Len(printed) = 2

\* The driver printed the result and the stats line after one animation
\* frame and the final frame.
C18_Witness ==
    /\ main_pc = "finished"
    /\ Len(printed) = 2
    /\ live_glyphs = <<"sp0", DoneGlyph>>

\* The fields of the tracker that notifications write
TrackerFields ==
    [todos |-> todos,
     task_start_times |-> task_start_times,
     task_end_times |-> task_end_times,
     current_message_type |-> current_message_type,
     current_message_preview |-> current_message_preview]

\* C15: no torn reads.  Every frame is built from the tracker as a whole
\* number of notifications left it: never with times recorded for a list
\* that has not yet replaced the previous one, nor with a message type next
\* to the previous preview.
C15_NoTornReads ==
    [][ Renders =>
          /\ TrackerFields = whole_state
          /\ live_frame'[1] =
                create_table(now - agent_start_time[1], Last(live_glyphs')) ]_vars

\* A frame that shows the second snapshot and the second preview, built
\* after both calls had returned.
C15_Witness ==
    /\ in_update = None
    /\ live_frame # None
    /\ Len(live_frame[1].rows) = 2
    /\ live_frame[1].msg = <<"a", "b">>
    /\ whole_state.todos = todos
    /\ Len(todos) = 2
    /\ 0 \in DOMAIN task_end_times

====
